---- MODULE Spec2Model ----
(***************************************************************************)
(* deploy_contract.py: a one-shot preflight script.  main() connects to    *)
(* an RPC endpoint, probes it, reads the chain id, derives the deployer    *)
(* address from the configured key, reads its balance and prints either    *)
(* faucet links (balance 0) or the Remix IDE instructions.                 *)
(*                                                                         *)
(* The model follows main() statement by statement.  The remote endpoint   *)
(* is the environment: the probe answers TRUE or FALSE, and each query     *)
(* either returns what the ledger holds or raises.  main() has no          *)
(* try/except, so a raised error leaves main() and the interpreter ends    *)
(* the process with a traceback on stderr and exit status 1.               *)
(*                                                                         *)
(* Printed lines are sequences of fragments, the way the f-strings build   *)
(* them; the emoji that open some lines are left out of the literals.      *)
(***************************************************************************)
EXTENDS Integers, Sequences, FiniteSets, TLC

\* ---------------------------------------------------------------- bounds
\* Largest balance (in wei) the ledger holds for an address.
MaxBalance == 2

\* Chain ids the endpoint may serve (1: mainnet, 11155111: Sepolia).
ChainIds == {1, 11155111}

\* ------------------------------------------------- module-level constants
\* The 64 hexadecimal digits of the key literal, one number per digit.
PRIVATE_KEY ==
  << 9, 4, 9, 0, 4, 3, 10, 12, 12, 8, 8, 15, 5, 0, 12, 12,
     1, 5, 9, 14, 8, 11, 0, 7, 14, 0, 7, 15, 13, 5, 7, 14,
     13, 10, 5, 3, 13, 4, 9, 14, 12, 0, 10, 5, 11, 9, 5, 5,
     5, 7, 9, 1, 12, 14, 15, 1, 13, 11, 7, 10, 3, 6, 6, 15 >>

SOVR_TOKEN == "0xeadec4b261da230822ddb184ad7a74024384f1e6"

RPC_URL == "https://rpc.sepolia.org"

\* The module's global bindings as main() finds them.
ModuleGlobals ==
  [PRIVATE_KEY |-> PRIVATE_KEY, SOVR_TOKEN |-> SOVR_TOKEN, RPC_URL |-> RPC_URL]

\* ------------------------------------------------------ library functions
\* A private key is 32 bytes: 64 hexadecimal digits, not all zero.
KeyDigits == 64

WellFormedKey(key) ==
  /\ Len(key) = KeyDigits
  /\ \A i \in 1..Len(key) : key[i] \in 0..15
  /\ \E i \in 1..Len(key) : key[i] # 0

\* account.address of w3.eth.account.from_key(key): a value determined by
\* the key and by nothing else (the derivation itself is the library's).
FromKey(key) == [address |-> <<"address_of", key>>]

\* The unit 'ether' is 10^18 wei.
EtherDecimals == 18

\* w3.from_wei(number, 'ether'): the int 0 for 0, otherwise the decimal
\* number * 10^-18; both kept as coefficient and exponent (0 is 0 * 10^0).
FromWei(number) ==
  IF number = 0
    THEN [coefficient |-> 0, exponent |-> 0]
    ELSE [coefficient |-> number, exponent |-> 0 - EtherDecimals]

\* ------------------------------------------------------------------ state
VARIABLES
  pc,         \* the statement main() executes next
  globals,    \* PRIVATE_KEY, SOVR_TOKEN, RPC_URL
  locals,     \* main()'s local variables, bound as they are assigned
  stdout,     \* the lines printed so far
  stderr,     \* what the interpreter wrote on stderr
  requests,   \* the network operations issued so far, in order
  exc,        \* the exception in flight, <<>> if none
  exitStatus, \* the process's exit status, -1 while it runs
  ledger      \* the remote chain: its id and the balance of each address

vars == <<pc, globals, locals, stdout, stderr, requests, exc, exitStatus, ledger>>

\* The addresses the ledger keeps a balance for: the deployer's and the
\* token contract's.
Addresses == {FromKey(PRIVATE_KEY).address, <<"address", SOVR_TOKEN>>}

NoLocals == [n \in {} |-> 0]

Bind(name, value) == [n \in DOMAIN locals \cup {name} |->
                        IF n = name THEN value ELSE locals[n]]

Init ==
  /\ pc = "L18"
  /\ globals = ModuleGlobals
  /\ locals = NoLocals
  /\ stdout = <<>>
  /\ stderr = <<>>
  /\ requests = <<>>
  /\ exc = <<>>
  /\ exitStatus = -1
  /\ ledger \in [chain_id : ChainIds, balance : [Addresses -> 0..MaxBalance]]

\* ------------------------------------------------------------ the lines
BannerLine == <<"Deploying VirtualCardBridge to Sepolia...">>

ConnectFailedLine == <<"Failed to connect to Sepolia RPC">>

ConnectedLine(chain_id) == <<"Connected to Sepolia (Chain ID: ", chain_id, ")">>

DeployerLine(address) == <<"Deployer: ", address>>

BalanceLine(balance_eth) == <<"Balance: ", balance_eth, " ETH">>

FaucetLines ==
  << <<"\nNO ETH BALANCE!">>,
     <<"Get Sepolia testnet ETH from:">>,
     <<"  - https://sepoliafaucet.com">>,
     <<"  - https://www.alchemy.com/faucets/ethereum-sepolia">> >>

RemixLines(token, address) ==
  << <<"\nContract compilation required.">>,
     <<"Please use Remix IDE for deployment:">>,
     <<"  1. Go to https://remix.ethereum.org">>,
     <<"  2. Deploy with SOVR address: ", token>>,
     <<"  3. Deploy from wallet: ", address>> >>

\* ------------------------------------------------------------ requests
\* One network operation as the endpoint saw it, with what came back.
Returned(op, args, value) == [op |-> op, args |-> args, result |-> <<"ok", value>>]

Failed(op, args) == [op |-> op, args |-> args, result |-> <<"error">>]

\* ---------------------------------------------------------- the statements
\* print("Deploying VirtualCardBridge to Sepolia...")
L18_Banner ==
  /\ pc = "L18"
  /\ stdout' = Append(stdout, BannerLine)
  /\ pc' = "L21"
  /\ UNCHANGED <<globals, locals, stderr, requests, exc, exitStatus, ledger>>

\* w3 = Web3(Web3.HTTPProvider(RPC_URL)): builds the client, sends nothing.
L21_Web3 ==
  /\ pc = "L21"
  /\ locals' = Bind("w3", [endpoint_uri |-> globals.RPC_URL])
  /\ pc' = "L23"
  /\ UNCHANGED <<globals, stdout, stderr, requests, exc, exitStatus, ledger>>

\* if not w3.is_connected(): the probe answered True; main() goes on.
L23_Connected ==
  /\ pc = "L23"
  /\ requests' = Append(requests,
                        Returned("is_connected", <<locals.w3.endpoint_uri>>, TRUE))
  /\ pc' = "L27"
  /\ UNCHANGED <<globals, locals, stdout, stderr, exc, exitStatus, ledger>>

\* L23_NotConnected without its print: main() returns in silence.
L23_NotConnected_Silent ==
  /\ pc = "L23"
  /\ requests' = Append(requests,
                        Returned("is_connected", <<locals.w3.endpoint_uri>>, FALSE))
  /\ pc' = "returned"
  /\ UNCHANGED <<globals, locals, stdout, stderr, exc, exitStatus, ledger>>

\* L23_NotConnected without its return: the message is printed and main()
\* goes on to line 27.
L23_NotConnected_NoReturn ==
  /\ pc = "L23"
  /\ requests' = Append(requests,
                        Returned("is_connected", <<locals.w3.endpoint_uri>>, FALSE))
  /\ stdout' = Append(stdout, ConnectFailedLine)
  /\ pc' = "L27"
  /\ UNCHANGED <<globals, locals, stderr, exc, exitStatus, ledger>>

\* if not w3.is_connected(): print(...); return.  is_connected() answers
\* False for an endpoint that does not respond (it raises nothing).
L23_NotConnected ==
  /\ pc = "L23"
  /\ requests' = Append(requests,
                        Returned("is_connected", <<locals.w3.endpoint_uri>>, FALSE))
  /\ stdout' = Append(stdout, ConnectFailedLine)
  /\ pc' = "returned"
  /\ UNCHANGED <<globals, locals, stderr, exc, exitStatus, ledger>>

\* print(f"Connected to Sepolia (Chain ID: {w3.eth.chain_id})"): the query
\* runs while the line is being built; the line is printed once it returned.
L27_ChainId ==
  /\ pc = "L27"
  /\ requests' = Append(requests, Returned("chain_id", <<>>, ledger.chain_id))
  /\ stdout' = Append(stdout, ConnectedLine(ledger.chain_id))
  /\ pc' = "L30"
  /\ UNCHANGED <<globals, locals, stderr, exc, exitStatus, ledger>>

\* L27_ChainIdRaises with one retry: the first failure sends main() back to
\* line 27, the second one raises.
L27_ChainIdRaises_Retry ==
  /\ pc = "L27"
  /\ requests' = Append(requests, Failed("chain_id", <<>>))
  /\ IF \E i \in DOMAIN requests : requests[i].op = "chain_id"
       THEN exc' = <<"chain_id">> /\ pc' = "raised"
       ELSE exc' = exc /\ pc' = "L27"
  /\ UNCHANGED <<globals, locals, stdout, stderr, exitStatus, ledger>>

\* The chain-id query raises: line 27 prints nothing.
L27_ChainIdRaises ==
  /\ pc = "L27"
  /\ requests' = Append(requests, Failed("chain_id", <<>>))
  /\ exc' = <<"chain_id">>
  /\ pc' = "raised"
  /\ UNCHANGED <<globals, locals, stdout, stderr, exitStatus, ledger>>

\* account = w3.eth.account.from_key(PRIVATE_KEY): computed locally, no
\* request; raises on a malformed key.
L30_FromKey ==
  /\ pc = "L30"
  /\ IF WellFormedKey(globals.PRIVATE_KEY)
       THEN /\ locals' = Bind("account", FromKey(globals.PRIVATE_KEY))
            /\ pc' = "L31"
            /\ exc' = exc
       ELSE /\ exc' = <<"from_key">>
            /\ pc' = "raised"
            /\ locals' = locals
  /\ UNCHANGED <<globals, stdout, stderr, requests, exitStatus, ledger>>

\* L31_Deployer without its print.
L31_Deployer_Silent ==
  /\ pc = "L31"
  /\ pc' = "L34"
  /\ UNCHANGED <<globals, locals, stdout, stderr, requests, exc, exitStatus, ledger>>

\* print(f"Deployer: {account.address}")
L31_Deployer ==
  /\ pc = "L31"
  /\ stdout' = Append(stdout, DeployerLine(locals.account.address))
  /\ pc' = "L34"
  /\ UNCHANGED <<globals, locals, stderr, requests, exc, exitStatus, ledger>>

\* BalanceQueryAddress mixed up with the token contract's address.
BalanceQueryAddress_Token == <<"address", globals.SOVR_TOKEN>>

\* The argument of get_balance at line 34.
BalanceQueryAddress == locals.account.address

\* balance = w3.eth.get_balance(account.address)
L34_GetBalance ==
  /\ pc = "L34"
  /\ requests' = Append(requests,
                        Returned("get_balance", <<BalanceQueryAddress>>,
                                 ledger.balance[BalanceQueryAddress]))
  /\ locals' = Bind("balance", ledger.balance[BalanceQueryAddress])
  /\ pc' = "L35"
  /\ UNCHANGED <<globals, stdout, stderr, exc, exitStatus, ledger>>

\* L34_GetBalanceRaises with the error swallowed: the balance counts as 0
\* and main() goes on.
L34_GetBalanceRaises_AsZero ==
  /\ pc = "L34"
  /\ requests' = Append(requests, Failed("get_balance", <<BalanceQueryAddress>>))
  /\ locals' = Bind("balance", 0)
  /\ pc' = "L35"
  /\ UNCHANGED <<globals, stdout, stderr, exc, exitStatus, ledger>>

\* The balance query raises: balance stays unbound.
L34_GetBalanceRaises ==
  /\ pc = "L34"
  /\ requests' = Append(requests, Failed("get_balance", <<BalanceQueryAddress>>))
  /\ exc' = <<"get_balance">>
  /\ pc' = "raised"
  /\ UNCHANGED <<globals, locals, stdout, stderr, exitStatus, ledger>>

\* balance_eth = w3.from_wei(balance, 'ether')
L35_FromWei ==
  /\ pc = "L35"
  /\ locals' = Bind("balance_eth", FromWei(locals.balance))
  /\ pc' = "L36"
  /\ UNCHANGED <<globals, stdout, stderr, requests, exc, exitStatus, ledger>>

\* print(f"Balance: {balance_eth} ETH")
L36_Balance ==
  /\ pc = "L36"
  /\ stdout' = Append(stdout, BalanceLine(locals.balance_eth))
  /\ pc' = "L38"
  /\ UNCHANGED <<globals, locals, stderr, requests, exc, exitStatus, ledger>>

\* NoBalance with a dust threshold: 1 wei counts as no balance.
NoBalance_Dust(balance) == balance <= 1

\* The test of line 38: balance == 0, on the integer number of wei.
NoBalance(balance) == balance = 0

\* L38_Faucets without the return of line 43: main() goes on to line 45.
L38_Faucets_NoReturn ==
  /\ pc = "L38"
  /\ NoBalance(locals.balance)
  /\ stdout' = stdout \o FaucetLines
  /\ pc' = "L45"
  /\ UNCHANGED <<globals, locals, stderr, requests, exc, exitStatus, ledger>>

\* if balance == 0: the four prints of lines 39-42 and the return of 43.
L38_Faucets ==
  /\ pc = "L38"
  /\ NoBalance(locals.balance)
  /\ stdout' = stdout \o FaucetLines
  /\ pc' = "returned"
  /\ UNCHANGED <<globals, locals, stderr, requests, exc, exitStatus, ledger>>

\* if balance == 0 is false: on to line 45.
L38_HasBalance ==
  /\ pc = "L38"
  /\ ~NoBalance(locals.balance)
  /\ pc' = "L45"
  /\ UNCHANGED <<globals, locals, stdout, stderr, requests, exc, exitStatus, ledger>>

\* L45_Remix deploying by itself: it sends a transaction that costs the
\* deployer one wei of gas, then prints.
L45_Remix_Deploys ==
  /\ pc = "L45"
  /\ requests' = Append(requests,
                        Returned("send_raw_transaction", <<locals.account.address>>, 0))
  /\ ledger' = [ledger EXCEPT !.balance[locals.account.address] = @ - 1]
  /\ stdout' = stdout \o RemixLines(globals.SOVR_TOKEN, locals.account.address)
  /\ pc' = "returned"
  /\ UNCHANGED <<globals, locals, stderr, exc, exitStatus>>

\* Lines 45-49: the five prints, then main() falls off its end.
L45_Remix ==
  /\ pc = "L45"
  /\ stdout' = stdout \o RemixLines(globals.SOVR_TOKEN, locals.account.address)
  /\ pc' = "returned"
  /\ UNCHANGED <<globals, locals, stderr, requests, exc, exitStatus, ledger>>

\* L52_Exit telling a connection failure by the exit status.
L52_Exit_FailStatus ==
  /\ pc = "returned"
  /\ exitStatus' = IF \E i \in DOMAIN stdout : stdout[i] = ConnectFailedLine
                     THEN 1 ELSE 0
  /\ pc' = "exited"
  /\ UNCHANGED <<globals, locals, stdout, stderr, requests, exc, ledger>>

\* main() returned to line 52, the last of the script: exit status 0.
L52_Exit ==
  /\ pc = "returned"
  /\ exitStatus' = 0
  /\ pc' = "exited"
  /\ UNCHANGED <<globals, locals, stdout, stderr, requests, exc, ledger>>

\* What the interpreter writes on stderr for an error nothing caught.
Traceback(error) == <<"Traceback (most recent call last):", error>>

\* The error left main() at line 52 with nothing to catch it: the
\* interpreter writes the traceback and ends with exit status 1.
L52_Uncaught ==
  /\ pc = "raised"
  /\ stderr' = Append(stderr, Traceback(exc))
  /\ exitStatus' = 1
  /\ pc' = "exited"
  /\ UNCHANGED <<globals, locals, stdout, requests, exc, ledger>>

Next ==
  \/ L18_Banner
  \/ L21_Web3
  \/ L23_Connected
  \/ L23_NotConnected
  \/ L27_ChainId
  \/ L27_ChainIdRaises
  \/ L30_FromKey
  \/ L31_Deployer
  \/ L34_GetBalance
  \/ L34_GetBalanceRaises
  \/ L35_FromWei
  \/ L36_Balance
  \/ L38_Faucets
  \/ L38_HasBalance
  \/ L45_Remix
  \/ L52_Exit
  \/ L52_Uncaught

Spec == Init /\ [][Next]_vars

\* The interpreter runs the script's statements one after another: a
\* statement that can run does run.
FairSpec == Spec /\ WF_vars(Next)

\* ------------------------------------------------------- what a run shows
\* The places of the printed lines that open with `head`.
LinesWith(head) == {i \in DOMAIN stdout : stdout[i][1] = head}

HasLine(head) == LinesWith(head) # {}

\* The chain ids, deployer addresses and balances the output displays.
ShownChainIds == {stdout[i][2] : i \in LinesWith(ConnectedLine(0)[1])}

ShownDeployers == {stdout[i][2] : i \in LinesWith(DeployerLine(0)[1])}

ShownBalances == {stdout[i][2] : i \in LinesWith(BalanceLine(0)[1])}

\* The faucet guidance of lines 39-42: all of it, any of it.
FaucetGuidanceShown == \A j \in DOMAIN FaucetLines : HasLine(FaucetLines[j][1])

AnyFaucetLineShown == \E j \in DOMAIN FaucetLines : HasLine(FaucetLines[j][1])

\* The IDE instructions of lines 45-49: all of it, any of it.
RemixGuidanceShown == \A j \in 1..5 : HasLine(RemixLines(0, 0)[j][1])

AnyRemixLineShown == \E j \in 1..5 : HasLine(RemixLines(0, 0)[j][1])

\* The token address and the wallet address the IDE instructions name.
ShownTokens == {stdout[i][2] : i \in LinesWith(RemixLines(0, 0)[4][1])}

ShownWallets == {stdout[i][2] : i \in LinesWith(RemixLines(0, 0)[5][1])}

\* What the endpoint answered.
ProbeAnswered(b) ==
  \E i \in DOMAIN requests :
    requests[i].op = "is_connected" /\ requests[i].result[2] = b

QueryReturned(op) ==
  \E i \in DOMAIN requests : requests[i].op = op /\ requests[i].result[1] = "ok"

QueryRaised(op) ==
  \E i \in DOMAIN requests : requests[i].op = op /\ requests[i].result[1] = "error"

BalanceReturned(wei) ==
  \E i \in DOMAIN requests :
    /\ requests[i].op = "get_balance"
    /\ requests[i].result[1] = "ok"
    /\ requests[i].result[2] = wei

\* ------------------------------------------------------------------ C1
\* C1: once the probe has reported failure, the connection-failure message
\* is printed and main() has returned; the probe is the only request ever
\* issued, no address is derived, and no chain id, deployer, balance,
\* faucet or IDE line is printed.
C1_ProbeFailureEndsRun ==
  ProbeAnswered(FALSE) =>
    /\ HasLine(ConnectFailedLine[1])
    /\ pc \in {"returned", "exited"}
    /\ exc = <<>>
    /\ Len(requests) = 1
    /\ "account" \notin DOMAIN locals
    /\ "balance" \notin DOMAIN locals
    /\ ShownChainIds = {} /\ ShownDeployers = {} /\ ShownBalances = {}
    /\ ~AnyFaucetLineShown
    /\ ~AnyRemixLineShown

C1_Witness == pc = "exited" /\ ProbeAnswered(FALSE)

\* ------------------------------------------------------------------ C2
\* C2: when the probe succeeded and the balance query returned 0, the
\* finished run shows the chain id, the derived address, the balance 0 and
\* all the faucet lines, and no line of the IDE instructions.
C2_ZeroBalanceShowsFaucets ==
  (ProbeAnswered(TRUE) /\ BalanceReturned(0) /\ pc \in {"returned", "exited"}) =>
    /\ ShownChainIds = {ledger.chain_id}
    /\ ShownDeployers = {FromKey(PRIVATE_KEY).address}
    /\ ShownBalances = {[coefficient |-> 0, exponent |-> 0]}
    /\ FaucetGuidanceShown
    /\ ~AnyRemixLineShown

C2_Witness == pc = "exited" /\ ProbeAnswered(TRUE) /\ BalanceReturned(0)

\* ------------------------------------------------------------------ C3
\* C3: when the probe succeeded and the balance query returned more than
\* 0 wei (1 wei included), the finished run shows the chain id, the derived
\* address, the balance and the IDE instructions naming the token address,
\* and no line of the faucet guidance.
C3_PositiveBalanceShowsRemix ==
  \A wei \in 1..MaxBalance :
    (ProbeAnswered(TRUE) /\ BalanceReturned(wei) /\ pc \in {"returned", "exited"}) =>
      /\ ShownChainIds = {ledger.chain_id}
      /\ ShownDeployers = {FromKey(PRIVATE_KEY).address}
      /\ ShownBalances = {[coefficient |-> wei, exponent |-> 0 - EtherDecimals]}
      /\ RemixGuidanceShown
      /\ ShownTokens = {SOVR_TOKEN}
      /\ ~AnyFaucetLineShown

C3_Witness == pc = "exited" /\ ProbeAnswered(TRUE) /\ BalanceReturned(1)

\* ------------------------------------------------------------------ C4
\* C4 as stated: after a query raised, the finished run reports a single
\* failure message and none of the status lines of the earlier steps
\* (chain id, deployer, balance) remains in the output.
C4_Original ==
  (pc = "exited" /\ (QueryRaised("chain_id") \/ QueryRaised("get_balance"))) =>
    /\ Len(stderr) = 1
    /\ ShownChainIds = {} /\ ShownDeployers = {} /\ ShownBalances = {}

\* C4 amended: a query that raises is fatal.  It is the last request of the
\* run, main() is left at once, no balance line and no faucet or IDE line
\* is printed, the process ends with exit status 1 and a single traceback
\* naming the failed query; the lines printed before the failure stay: the
\* banner alone when the chain-id query raised, the banner, the connected
\* line and the deployer line when the balance query raised.
C4_QueryErrorIsFatal ==
  \A op \in {"chain_id", "get_balance"} :
    QueryRaised(op) =>
      /\ pc \in {"raised", "exited"}
      /\ exc = <<op>>
      /\ requests[Len(requests)].op = op
      /\ ShownBalances = {}
      /\ ~AnyFaucetLineShown
      /\ ~AnyRemixLineShown
      /\ pc = "exited" => (stderr = <<Traceback(<<op>>)>> /\ exitStatus = 1)
      /\ Len(stdout) = IF op = "chain_id" THEN 1 ELSE 3
      /\ stdout[1] = BannerLine
      /\ op = "get_balance" =>
           /\ stdout[2] = ConnectedLine(ledger.chain_id)
           /\ stdout[3] = DeployerLine(FromKey(PRIVATE_KEY).address)

C4_Witness ==
  pc = "exited" /\ QueryRaised("get_balance") /\ ShownDeployers # {}

\* ------------------------------------------------------------------ C5
\* C5 as stated: at the end of the run, a failed probe leaves chain id,
\* address and balance absent and a failure reason present, and a succeeded
\* probe leaves chain id and address present, whatever the later queries do.
C5_Original ==
  pc = "exited" =>
    /\ ProbeAnswered(FALSE) =>
         /\ ShownChainIds = {} /\ ShownDeployers = {} /\ ShownBalances = {}
         /\ HasLine(ConnectFailedLine[1])
    /\ ProbeAnswered(TRUE) => (ShownChainIds # {} /\ ShownDeployers # {})

\* C5 amended: a run counts as connected when it printed the connected
\* line, which takes a succeeded probe and a returned chain-id query.  At
\* the end of the run, not connected leaves chain id, address and balance
\* absent and a failure reason present (the connection-failure line, or the
\* traceback of the chain-id query); connected leaves chain id and address
\* present, also when the balance query raised afterwards.
C5_ResultShape ==
  pc = "exited" =>
    LET connected == HasLine(ConnectedLine(0)[1]) IN
    /\ connected <=> (ProbeAnswered(TRUE) /\ QueryReturned("chain_id"))
    /\ ~connected =>
         /\ ShownChainIds = {} /\ ShownDeployers = {} /\ ShownBalances = {}
         /\ \/ HasLine(ConnectFailedLine[1]) /\ stderr = <<>>
            \/ ~HasLine(ConnectFailedLine[1]) /\ stderr = <<Traceback(<<"chain_id">>)>>
    /\ connected =>
         /\ ShownChainIds = {ledger.chain_id}
         /\ ShownDeployers = {FromKey(PRIVATE_KEY).address}

C5_Witness ==
  pc = "exited" /\ ProbeAnswered(TRUE) /\ QueryRaised("chain_id") /\ ShownChainIds = {}

\* ------------------------------------------------------------------ C6
\* The order main() issues its network operations in.
FixedOrder == <<"is_connected", "chain_id", "get_balance">>

Succeeded(request) ==
  /\ request.result[1] = "ok"
  /\ request.op = "is_connected" => request.result[2] = TRUE

\* C6: the operations issued so far are a prefix of (probe, chain-id query,
\* balance query), so none is issued twice or out of order, and every one
\* but the last has completed successfully.
C6_RequestOrder ==
  /\ Len(requests) <= Len(FixedOrder)
  /\ \A i \in DOMAIN requests : requests[i].op = FixedOrder[i]
  /\ \A i \in 1..(Len(requests) - 1) : Succeeded(requests[i])

C6_Witness ==
  /\ pc = "exited"
  /\ Len(requests) = 3
  /\ \A i \in DOMAIN requests : Succeeded(requests[i])

\* ------------------------------------------------------------------ C7
\* C7 as stated: every run ends, and it ends with the same exit status
\* (0, a normal end) whether it succeeded or failed.
C7_Original ==
  /\ <>(pc = "exited")
  /\ [](pc = "exited" => exitStatus = 0)

\* C7 amended: every run ends; it ends with exit status 0 after a
\* connection failure, a zero balance or a positive balance, and with exit
\* status 1 and a traceback when the chain-id query or the balance query
\* raised.
C7_Terminates ==
  /\ <>(pc = "exited")
  /\ [](pc = "exited" =>
          /\ (QueryRaised("chain_id") \/ QueryRaised("get_balance")) =>
               (exitStatus = 1 /\ Len(stderr) = 1)
          /\ (~QueryRaised("chain_id") /\ ~QueryRaised("get_balance")) =>
               (exitStatus = 0 /\ stderr = <<>>))

C7_Witness == pc = "exited" /\ exitStatus = 1 /\ QueryRaised("chain_id")

\* ------------------------------------------------------------------ C8
\* The operations that only read the chain.
ReadOps == {"is_connected", "chain_id", "get_balance"}

C9_AddressFromCredential ==
  /\ ShownDeployers \subseteq {FromKey(PRIVATE_KEY).address}
  /\ \A i \in DOMAIN requests :
       requests[i].op = "get_balance" =>
         /\ Len(requests[i].args) = 1
         /\ requests[i].args[1] \in ShownDeployers
  /\ ShownWallets \subseteq ShownDeployers

C9_Witness ==
  /\ pc = "exited"
  /\ ShownWallets = {FromKey(PRIVATE_KEY).address}
  /\ QueryReturned("get_balance")

\* ----------------------------------------------------------------- C10
\* C10 as stated: once main() is over, the output holds the connected line
\* if the probe succeeded, the deployer line if the address was derived and
\* the balance line if the balance query returned, also when a later step
\* failed.
C10_Original ==
  pc = "exited" =>
    /\ ProbeAnswered(TRUE) => HasLine(ConnectedLine(0)[1])
    /\ "account" \in DOMAIN locals => HasLine(DeployerLine(0)[1])
    /\ QueryReturned("get_balance") => HasLine(BalanceLine(0)[1])

\* C10 amended: once main() is over, the output holds the connected line
\* exactly when the chain-id query returned (the line carries the chain id,
\* so a run whose probe succeeds and whose chain-id query raises prints no
\* connected line), the deployer line if the address was derived and the
\* balance line if the balance query returned, in that order, also when a
\* later step failed.
C10_StatusLines ==
  pc = "exited" =>
    /\ QueryReturned("chain_id") <=> HasLine(ConnectedLine(0)[1])
    /\ ShownChainIds \subseteq {ledger.chain_id}
    /\ "account" \in DOMAIN locals => HasLine(DeployerLine(0)[1])
    /\ QueryReturned("get_balance") => HasLine(BalanceLine(0)[1])
    /\ \A i \in LinesWith(ConnectedLine(0)[1]) :
         \A j \in LinesWith(DeployerLine(0)[1]) : i < j
    /\ \A i \in LinesWith(DeployerLine(0)[1]) :
         \A j \in LinesWith(BalanceLine(0)[1]) : i < j

C10_Witness ==
  /\ pc = "exited"
  /\ QueryRaised("get_balance")
  /\ HasLine(ConnectedLine(0)[1])
  /\ HasLine(DeployerLine(0)[1])

====
